---- MODULE Spec2Model ----
(***************************************************************************)
(* Model of rosters_measurements/generate_measurements.py: the demographic *)
(* adjustment functions (get_age_bracket, get_adjustment_factor), the      *)
(* value generator gen_value and the generation loop of main.              *)
(*                                                                         *)
(* Real numbers are exact rationals <<n, d>> with d > 0 in lowest terms.   *)
(* Python values are records tagged by their type in field t.              *)
(***************************************************************************)
EXTENDS Integers, Sequences, FiniteSets, TLC

VARIABLES
    call,    \* function-level specification: the call drawn
    ret,     \* function-level specification: its outcome
    pc,      \* main: where the run is
    args,    \* main: the parsed command line
    roster,  \* main: the rows read_roster returned
    dates,   \* main: the resolved test dates
    ds,      \* rand_dates: the set of dates drawn so far
    base,    \* main: the offsets dict built by athlete_baseline_offsets
    draws,   \* number of samples taken from the random stream since seeding
    idx,     \* loop positions: roster row of the baseline loop (b), and
             \* athlete (a), date (d), metric (m), trial (t) of the generation
    rows,    \* the rows written to the output file, in order
    gen,     \* the arguments and center of the last gen_value call of main
    err      \* the exception that ended the run, or ""

fnVars == <<call, ret>>

mainVars == <<pc, args, roster, dates, ds, base, draws, idx, rows, gen, err>>

vars == <<call, ret, pc, args, roster, dates, ds, base, draws, idx, rows, gen, err>>

(***************************************************************************)
(* Exact rational arithmetic                                               *)
(***************************************************************************)
Abs(x) == IF x < 0 THEN -x ELSE x

RECURSIVE Gcd(_, _)
Gcd(a, b) == IF b = 0 THEN a ELSE Gcd(b, a % b)

Sgn(d) == IF d < 0 THEN -1 ELSE 1

RatBy(n, d, g) == <<(Sgn(d) * n) \div g, (Sgn(d) * d) \div g>>

\* The rational n/d in lowest terms with a positive denominator.
Rat(n, d) == RatBy(n, d, Gcd(Abs(n), Abs(d)))

Lcm(a, b) == (a \div Gcd(a, b)) * b

RAddBy(p, q, L) == Rat(p[1] * (L \div p[2]) + q[1] * (L \div q[2]), L)

RAdd(p, q) == RAddBy(p, q, Lcm(p[2], q[2]))

RNeg(p) == <<-p[1], p[2]>>

RSub(p, q) == RAdd(p, RNeg(q))

RMulBy(p, q, g1, g2) ==
    <<(p[1] \div g1) * (q[1] \div g2), (p[2] \div g2) * (q[2] \div g1)>>

RMul(p, q) == RMulBy(p, q, Gcd(Abs(p[1]), q[2]), Gcd(Abs(q[1]), p[2]))

RInv(p) == Rat(p[2], p[1])

RScale(k, p) == RMul(<<k, 1>>, p)

RLt(p, q) == RSub(p, q)[1] < 0

RLe(p, q) == RSub(p, q)[1] <= 0

RMin(p, q) == IF RLe(p, q) THEN p ELSE q

RMax(p, q) == IF RLe(q, p) THEN p ELSE q

RoundHalfUp(h) == IF h[1] >= 0 THEN h[1] \div h[2] ELSE -((-h[1] + h[2] - 1) \div h[2])

\* Mutant of Trunc: rounds to the nearest integer instead of truncating.
Trunc_round(p) == RoundHalfUp(RAdd(p, <<1, 2>>))

\* Integer part of a rational, truncated toward zero (Python's int(float)).
Trunc(p) == IF p[1] >= 0 THEN p[1] \div p[2] ELSE -((-p[1]) \div p[2])

(***************************************************************************)
(* Python values                                                           *)
(***************************************************************************)
PyNone == [t |-> "None"]

PyStr(s) == [t |-> "str", s |-> s]

PyInt(n) == [t |-> "int", n |-> n]

\* A float: sp is "fin" for a finite value q, else "nan", "inf" or "ninf".
PyFloat(q) == [t |-> "float", sp |-> "fin", q |-> q]

PyFloatSpecial(sp) == [t |-> "float", sp |-> sp, q |-> <<0, 1>>]

\* Result of a conversion: exc = "" when it returned v.
Returned(v) == [exc |-> "", v |-> v]

Raised(e, v) == [exc |-> e, v |-> v]

DigitChars == <<"0", "1", "2", "3", "4", "5", "6", "7", "8", "9">>

IsDigit(c) == \E i \in 1..10 : DigitChars[i] = c

DigitVal(c) == (CHOOSE i \in 1..10 : DigitChars[i] = c) - 1

RECURSIVE LStrip(_)
LStrip(s) == IF s # <<>> /\ Head(s) = " " THEN LStrip(Tail(s)) ELSE s

RECURSIVE RStrip(_)
RStrip(s) ==
    IF s # <<>> /\ s[Len(s)] = " " THEN RStrip(SubSeq(s, 1, Len(s) - 1)) ELSE s

\* str.strip() for the space character.
Strip(s) == RStrip(LStrip(s))

RECURSIVE DigitsValue(_)
DigitsValue(s) ==
    IF s = <<>> THEN 0
    ELSE 10 * DigitsValue(SubSeq(s, 1, Len(s) - 1)) + DigitVal(s[Len(s)])

RECURSIVE Pow10(_)
Pow10(k) == IF k = 0 THEN 1 ELSE 10 * Pow10(k - 1)

AllDigits(s) == \A i \in 1..Len(s) : IsDigit(s[i])

\* The unsigned decimal literals float() accepts here: digits with at most
\* one point and at least one digit (exponents and underscores are outside
\* the alphabet of the modelled inputs).
IsDecimal(s) ==
    /\ \A i \in 1..Len(s) : IsDigit(s[i]) \/ s[i] = "."
    /\ Cardinality({i \in 1..Len(s) : s[i] = "."}) <= 1
    /\ \E i \in 1..Len(s) : IsDigit(s[i])

DotIndex(s) ==
    IF \E i \in 1..Len(s) : s[i] = "."
    THEN CHOOSE i \in 1..Len(s) : s[i] = "."
    ELSE Len(s) + 1

DecimalOf(ip, fp) ==
    Rat(DigitsValue(ip) * Pow10(Len(fp)) + DigitsValue(fp), Pow10(Len(fp)))

DecimalAt(s, k) == DecimalOf(SubSeq(s, 1, k - 1), SubSeq(s, k + 1, Len(s)))

DecimalValue(s) == DecimalAt(s, DotIndex(s))

IsNegative(s) == s # <<>> /\ Head(s) = "-"

Unsigned(s) == IF s # <<>> /\ Head(s) \in {"-", "+"} THEN Tail(s) ELSE s

FloatOfBody(neg, body) ==
    IF body \in {<<"i", "n", "f">>, <<"i", "n", "f", "i", "n", "i", "t", "y">>}
    THEN Returned(PyFloatSpecial(IF neg THEN "ninf" ELSE "inf"))
    ELSE IF body = <<"n", "a", "n">>
    THEN Returned(PyFloatSpecial("nan"))
    ELSE IF IsDecimal(body)
    THEN Returned(PyFloat(IF neg THEN RNeg(DecimalValue(body))
                                 ELSE DecimalValue(body)))
    ELSE Raised("ValueError", PyFloatSpecial("nan"))

FloatOfStripped(s) == FloatOfBody(IsNegative(s), Unsigned(s))

\* float(str): surrounding spaces stripped, optional sign, then a decimal
\* literal, "inf", "infinity" or "nan"; anything else is a ValueError.
FloatOfStr(s0) == FloatOfStripped(Strip(s0))

\* float(x) for a Python value x.
FloatOf(x) ==
    CASE x.t = "int"   -> Returned(PyFloat(<<x.n, 1>>))
      [] x.t = "float" -> Returned(x)
      [] x.t = "str"   -> FloatOfStr(x.s)
      [] OTHER         -> Raised("TypeError", PyFloatSpecial("nan"))

\* int(f) for a float f: truncation; NaN is a ValueError, an infinity an
\* OverflowError.
IntOfFloat(f) ==
    CASE f.sp = "fin" -> Returned(Trunc(f.q))
      [] f.sp = "nan" -> Raised("ValueError", 0)
      [] OTHER        -> Raised("OverflowError", 0)

IntOfBody(neg, body) ==
    IF body # <<>> /\ AllDigits(body)
    THEN Returned(IF neg THEN -DigitsValue(body) ELSE DigitsValue(body))
    ELSE Raised("ValueError", 0)

IntOfStripped(s) == IntOfBody(IsNegative(s), Unsigned(s))

\* int(str): surrounding spaces stripped, optional sign, digits only.
IntOfStr(s0) == IntOfStripped(Strip(s0))

\* int(x) for a Python value x.
IntOf(x) ==
    CASE x.t = "int"   -> Returned(x.n)
      [] x.t = "float" -> IntOfFloat(x)
      [] x.t = "str"   -> IntOfStr(x.s)
      [] OTHER         -> Raised("TypeError", 0)

(***************************************************************************)
(* Configuration tables                                                    *)
(***************************************************************************)
AGE_MIDDLE_SCHOOL_MAX == 14
AGE_YOUNG_HS_MAX == 16
AGE_OLDER_HS_MAX == 18
AGE_MIN_VALID == 0
AGE_MAX_VALID == 100

Brackets == <<"middle_school", "young_hs", "older_hs", "college_plus">>

\* Mutant of AGE_BRACKETS: the two high-school brackets share a multiplier.
AGE_BRACKETS_flat ==
    [middle_school |-> Rat(80, 100), young_hs |-> Rat(88, 100),
     older_hs |-> Rat(88, 100), college_plus |-> Rat(100, 100)]

AGE_BRACKETS ==
    [middle_school |-> Rat(80, 100), young_hs |-> Rat(88, 100),
     older_hs |-> Rat(95, 100), college_plus |-> Rat(100, 100)]

\* Metric names in the catalog's (dict insertion) order.
MetricOrder == <<"FLY10_TIME", "VERTICAL_JUMP", "AGILITY_505", "RSI", "T_TEST">>

MetricNames == {MetricOrder[i] : i \in 1..Len(MetricOrder)}

MetricIndex(m) == CHOOSE i \in 1..Len(MetricOrder) : MetricOrder[i] = m

METRICS ==
    [m \in MetricNames |->
        CASE m = "FLY10_TIME" ->
               [units |-> "s", better |-> "lower", center |-> Rat(122, 100),
                sd |-> Rat(6, 100), drift_per_day |-> Rat(-6, 10000),
                min |-> Rat(100, 100), max |-> Rat(170, 100), flyInDistance |-> "20"]
          [] m = "VERTICAL_JUMP" ->
               [units |-> "in", better |-> "higher", center |-> Rat(235, 10),
                sd |-> Rat(2, 1), drift_per_day |-> Rat(8, 1000),
                min |-> Rat(12, 1), max |-> Rat(32, 1), flyInDistance |-> ""]
          [] m = "AGILITY_505" ->
               [units |-> "s", better |-> "lower", center |-> Rat(255, 100),
                sd |-> Rat(7, 100), drift_per_day |-> Rat(-7, 10000),
                min |-> Rat(21, 10), max |-> Rat(35, 10), flyInDistance |-> ""]
          [] m = "RSI" ->
               [units |-> "", better |-> "higher", center |-> Rat(24, 10),
                sd |-> Rat(25, 100), drift_per_day |-> Rat(9, 10000),
                min |-> Rat(1, 1), max |-> Rat(45, 10), flyInDistance |-> ""]
          [] m = "T_TEST" ->
               [units |-> "s", better |-> "lower", center |-> Rat(98, 10),
                sd |-> Rat(4, 10), drift_per_day |-> Rat(-10, 10000),
                min |-> Rat(75, 10), max |-> Rat(135, 10), flyInDistance |-> ""]]

\* Mutant of GENDER_ADJUSTMENTS: the Female multiplier of T_TEST is written
\* as a bonus (0.92) instead of a penalty.
GENDER_ADJUSTMENTS_slip ==
    [m \in MetricNames |->
        CASE m = "FLY10_TIME"    -> [Male |-> Rat(100, 100), Female |-> Rat(108, 100)]
          [] m = "VERTICAL_JUMP" -> [Male |-> Rat(100, 100), Female |-> Rat(75, 100)]
          [] m = "AGILITY_505"   -> [Male |-> Rat(100, 100), Female |-> Rat(105, 100)]
          [] m = "RSI"           -> [Male |-> Rat(100, 100), Female |-> Rat(85, 100)]
          [] m = "T_TEST"        -> [Male |-> Rat(100, 100), Female |-> Rat(92, 100)]]

GENDER_ADJUSTMENTS ==
    [m \in MetricNames |->
        CASE m = "FLY10_TIME"    -> [Male |-> Rat(100, 100), Female |-> Rat(108, 100)]
          [] m = "VERTICAL_JUMP" -> [Male |-> Rat(100, 100), Female |-> Rat(75, 100)]
          [] m = "AGILITY_505"   -> [Male |-> Rat(100, 100), Female |-> Rat(105, 100)]
          [] m = "RSI"           -> [Male |-> Rat(100, 100), Female |-> Rat(85, 100)]
          [] m = "T_TEST"        -> [Male |-> Rat(100, 100), Female |-> Rat(108, 100)]]

COMPETITIVE_LEVEL_DEFAULT == 3
COMPETITIVE_LEVEL_MIN == 1
COMPETITIVE_LEVEL_MAX == 5

COMPETITIVE_LEVEL_ADJUSTMENTS ==
    [l \in COMPETITIVE_LEVEL_MIN..COMPETITIVE_LEVEL_MAX |->
        CASE l = 1 -> Rat(115, 100)
          [] l = 2 -> Rat(108, 100)
          [] l = 3 -> Rat(100, 100)
          [] l = 4 -> Rat(92, 100)
          [] l = 5 -> Rat(85, 100)]

(***************************************************************************)
(* get_age_bracket                                                         *)
(***************************************************************************)
\* int(float(age)): the conversion of lines 141-144.
IntOfFloatOf(f) == IF f.exc = "" THEN IntOfFloat(f.v) ELSE Raised(f.exc, 0)

\* Lines 143-157 for the outcome i of the conversion.
bracket_of_int(i) ==
    IF i.exc \in {"ValueError", "TypeError"} THEN Returned("college_plus")
    ELSE IF i.exc # "" THEN Raised(i.exc, "")
    ELSE IF i.v < AGE_MIN_VALID \/ i.v > AGE_MAX_VALID THEN Returned("college_plus")
    ELSE IF i.v < AGE_MIDDLE_SCHOOL_MAX THEN Returned("middle_school")
    ELSE IF i.v < AGE_YOUNG_HS_MAX THEN Returned("young_hs")
    ELSE IF i.v < AGE_OLDER_HS_MAX THEN Returned("older_hs")
    ELSE Returned("college_plus")

get_age_bracket(age) ==
    IF age.t = "None" \/ (age.t = "str" /\ age.s = <<>>)
    THEN Returned("college_plus")
    ELSE bracket_of_int(IntOfFloatOf(FloatOf(age)))

(***************************************************************************)
(* get_adjustment_factor                                                   *)
(***************************************************************************)
One == <<1, 1>>

\* Python truthiness of the values the code tests (None and "" are false).
Truthy(x) ==
    CASE x.t = "None" -> FALSE
      [] x.t = "str"  -> x.s # ""
      [] OTHER        -> TRUE

IsGender(x, g) == x.t = "str" /\ x.s = g

\* GENDER_ADJUSTMENTS.get(metric, {"Male": 1.00, "Female": 1.00})
metric_adjustments(metric) ==
    IF metric \in DOMAIN GENDER_ADJUSTMENTS
    THEN GENDER_ADJUSTMENTS[metric]
    ELSE [Male |-> One, Female |-> One]

\* Mutant of gender_mult: every gender other than "Male" is treated as Female.
gender_mult_binary(gender, metric) ==
    IF IsGender(gender, "Male") THEN metric_adjustments(metric).Male
                                ELSE metric_adjustments(metric).Female

gender_mult(gender, metric) ==
    IF ~(IsGender(gender, "Male") \/ IsGender(gender, "Female"))
    THEN One
    ELSE IF gender.s = "Male" THEN metric_adjustments(metric).Male
                              ELSE metric_adjustments(metric).Female

comp_level_mult(competitive_level) ==
    IF competitive_level.t # "None"
       /\ competitive_level.n \in DOMAIN COMPETITIVE_LEVEL_ADJUSTMENTS
    THEN COMPETITIVE_LEVEL_ADJUSTMENTS[competitive_level.n]
    ELSE One

InvOrOne(q) == IF q[1] # 0 THEN RInv(q) ELSE One

\* Mutant of combined: multiplies directly whatever the metric's direction.
combined_direct(better, am, gm, lm) == RMul(RMul(am, gm), lm)

combined(better, am, gm, lm) ==
    IF better = "lower"
    THEN RMul(RMul(InvOrOne(am), gm), InvOrOne(lm))
    ELSE RMul(RMul(am, gm), lm)

\* Lines 174-202 for the outcome of get_age_bracket.
factor_of_bracket(bracket, gender, metric, metric_spec, competitive_level) ==
    IF bracket.exc # ""
    THEN Raised(bracket.exc, One)
    ELSE Returned(combined(metric_spec.better, AGE_BRACKETS[bracket.v],
                           gender_mult(gender, metric),
                           comp_level_mult(competitive_level)))

get_adjustment_factor(age, gender, metric, metric_spec, competitive_level) ==
    factor_of_bracket(get_age_bracket(age), gender, metric, metric_spec,
                      competitive_level)

(***************************************************************************)
(* gen_value                                                               *)
(***************************************************************************)
\* Mutant of clamp: the upper bound is not applied.
clamp_no_upper(x, lo, hi) == RMax(lo, x)

clamp(x, lo, hi) == RMax(lo, RMin(hi, x))

\* random.gauss(mu, sigma) for the standard-normal outcome z of the stream.
gauss(mu, sigma, z) == RAdd(mu, RMul(z, sigma))

\* Line 246 for the outcome of get_adjustment_factor.
center_of(spec, adjustment) ==
    IF adjustment.exc # ""
    THEN Raised(adjustment.exc, spec.center)
    ELSE Returned(RMul(spec.center, adjustment.v))

\* The center gen_value generates around (lines 242-246).
gen_center(spec, age, gender, metric, competitive_level) ==
    IF ~(age.t = "None") /\ ~(age.t = "str" /\ age.s = <<>>)
       /\ Truthy(gender) /\ Truthy(metric)
    THEN center_of(spec, get_adjustment_factor(age, gender, metric.s, spec,
                                               competitive_level))
    ELSE Returned(spec.center)

\* Lines 248-251 for the center: trend, draw and clamp.
value_of(spec, center, base_offset, day_index, jitter_sd, z) ==
    IF center.exc # ""
    THEN [exc |-> center.exc, v |-> spec.center, center |-> spec.center]
    ELSE [exc |-> "",
          v |-> clamp(gauss(RAdd(RAdd(center.v, base_offset),
                                 RScale(day_index, spec.drift_per_day)),
                            jitter_sd, z),
                      spec.min, spec.max),
          center |-> center.v]

\* gen_value with the stream's outcome z made explicit; the result carries
\* the center it was generated around.
gen_value(spec, base_offset, day_index, jitter_sd, age, gender, metric, competitive_level, z) ==
    value_of(spec, gen_center(spec, age, gender, metric, competitive_level),
             base_offset, day_index, jitter_sd, z)

(***************************************************************************)
(* Inputs of the function-level specification                              *)
(***************************************************************************)
\* Integer ages run over -AgeMargin .. AGE_MAX_VALID + AgeMargin, float ages
\* over the same range in steps of 1/FloatDen.
AgeMargin == 2
FloatDen == 10

AgeStrings ==
    {<<>>, <<"i", "n", "v", "a", "l", "i", "d">>, <<"N", "/", "A">>,
     <<"1", "6", ".", "5">>, <<"1", "8", ".", "0">>, <<"1", "3">>,
     <<" ", "1", "4", " ">>, <<"0">>, <<"1", "0", "0">>, <<"1", "0", "1">>,
     <<"-", "1">>, <<"-", "0", ".", "5">>, <<"1", "3", ".", "9">>,
     <<"+", "1", "7", ".">>, <<".", "5">>, <<".">>, <<"-">>, <<" ">>,
     <<"1", "3", ".", "9", ".", "1">>,
     <<"n", "a", "n">>, <<"i", "n", "f">>, <<"-", "i", "n", "f">>,
     <<"i", "n", "f", "i", "n", "i", "t", "y">>}

AgeInts == (-AgeMargin)..(AGE_MAX_VALID + AgeMargin)

AgeFloatNums == (-AgeMargin * FloatDen)..((AGE_MAX_VALID + AgeMargin) * FloatDen)

AgeInputs ==
    {PyNone}
    \cup {PyStr(s) : s \in AgeStrings}
    \cup {PyInt(n) : n \in AgeInts}
    \cup {PyFloat(Rat(n, FloatDen)) : n \in AgeFloatNums}
    \cup {PyFloatSpecial(sp) : sp \in {"nan", "inf", "ninf"}}

BracketCall(a) == [op |-> "get_age_bracket", age |-> a]

\* Ages, genders, metrics and levels of the get_adjustment_factor calls.
FactorAges ==
    {PyNone, PyStr(<<>>), PyStr(<<"N", "/", "A">>), PyStr(<<"1", "5">>),
     PyFloatSpecial("nan"), PyFloatSpecial("inf"),
     PyFloat(Rat(-1, 2)), PyFloat(Rat(139, 10))}
    \cup {PyInt(n) : n \in {-1, 0, 13, 14, 15, 16, 17, 18, 19, 100, 101}}

Genders ==
    {PyNone} \cup {PyStr(g) : g \in {"", "Male", "Female", "Other", "male"}}

\* Levels run over MIN - LevelMargin .. MAX + LevelMargin, and None.
LevelMargin == 1

Levels ==
    {PyNone}
    \cup {PyInt(l) : l \in (COMPETITIVE_LEVEL_MIN - LevelMargin)
                            ..(COMPETITIVE_LEVEL_MAX + LevelMargin)}

\* A metric that is in none of the tables, in both directions.
FakeSpec(better) ==
    [units |-> "", better |-> better, center |-> Rat(100, 1), sd |-> Rat(10, 1),
     drift_per_day |-> Rat(0, 1), min |-> Rat(0, 1), max |-> Rat(200, 1),
     flyInDistance |-> ""]

MetricArgs ==
    {[metric |-> m, spec |-> METRICS[m]] : m \in MetricNames}
    \cup {[metric |-> "FAKE_METRIC", spec |-> FakeSpec(b)] : b \in {"higher", "lower"}}

FactorCall(a, g, ma, l) ==
    [op |-> "get_adjustment_factor", age |-> a, gender |-> g, metric |-> ma.metric,
     spec |-> ma.spec, level |-> l]

\* gen_value calls: day_index in 0..MaxDayIndex, the stream's outcome in
\* -MaxZ..MaxZ standard deviations, offsets up to the extreme +10 / -10.
MaxDayIndex == 1
MaxZ == 2

GenAges == {PyNone, PyStr(<<>>), PyInt(13), PyInt(18)}

GenGenders == {PyNone} \cup {PyStr(g) : g \in {"", "Male", "Female", "Other"}}

GenLevels == {PyNone, PyInt(1), PyInt(5)}

GenOffsets == {Rat(-10, 1), Rat(0, 1), Rat(10, 1)}

\* The jitter of the unit tests (0.01) and the one main passes (sd * 0.5).
GenJitters(m) == {Rat(1, 100), RMul(METRICS[m].sd, Rat(1, 2))}

GenValueCall(m, o, di, j, a, g, ma, l, z) ==
    [op |-> "gen_value", spec |-> METRICS[m], base_offset |-> o, day_index |-> di,
     jitter_sd |-> j, age |-> a, gender |-> g, metric |-> ma, level |-> l,
     z |-> <<z, 1>>]

Pending == [exc |-> "pending"]

(***************************************************************************)
(* Dates, age_on and the fields of a roster row                            *)
(***************************************************************************)
IsLeap(y) == (y % 4 = 0 /\ y % 100 # 0) \/ y % 400 = 0

DaysInMonth(y, m) ==
    IF m = 2 THEN (IF IsLeap(y) THEN 29 ELSE 28)
    ELSE IF m \in {4, 6, 9, 11} THEN 30 ELSE 31

NoDate == <<0, 0, 0>>

\* datetime.date(y, m, d) for parsed numbers: a ValueError when out of range.
ValidDate(y, m, d) ==
    IF y >= 1 /\ m \in 1..12 /\ d >= 1 /\ d <= DaysInMonth(y, m)
    THEN Returned(<<y, m, d>>)
    ELSE Raised("ValueError", NoDate)

\* The %Y, %m and %d fields: four digits, then one or two digits each.
ParseDateParts(ys, ms, dd) ==
    IF Len(ys) = 4 /\ AllDigits(ys) /\ Len(ms) \in 1..2 /\ AllDigits(ms)
       /\ Len(dd) \in 1..2 /\ AllDigits(dd)
    THEN ValidDate(DigitsValue(ys), DigitsValue(ms), DigitsValue(dd))
    ELSE Raised("ValueError", NoDate)

Dashes(s) == {i \in 1..Len(s) : s[i] = "-"}

FirstDash(s) == CHOOSE i \in Dashes(s) : \A j \in Dashes(s) : i <= j

LastDash(s) == CHOOSE i \in Dashes(s) : \A j \in Dashes(s) : j <= i

SplitDate(s, i, j) ==
    ParseDateParts(SubSeq(s, 1, i - 1), SubSeq(s, i + 1, j - 1), SubSeq(s, j + 1, Len(s)))

\* datetime.strptime(v, "%Y-%m-%d").date(): a TypeError for a value that is
\* no string, a ValueError for a string that is no date.
ParseDate(v) ==
    IF v.t # "str" THEN Raised("TypeError", NoDate)
    ELSE IF Cardinality(Dashes(v.s)) # 2 THEN Raised("ValueError", NoDate)
    ELSE SplitDate(v.s, FirstDash(v.s), LastDash(v.s))

\* (on_date.month, on_date.day) < (bd.month, bd.day)
BeforeBirthday(on, bd) == on[2] < bd[2] \/ (on[2] = bd[2] /\ on[3] < bd[3])

\* Mutant of age_of: a birth date that does not parse counts as age 0.
age_of_zero(bd, on_date) ==
    IF bd.exc # "" THEN PyInt(0)
    ELSE PyInt(on_date[1] - bd.v[1] - (IF BeforeBirthday(on_date, bd.v) THEN 1 ELSE 0))

age_of(bd, on_date) ==
    IF bd.exc # "" THEN PyStr(<<>>)
    ELSE PyInt(on_date[1] - bd.v[1] - (IF BeforeBirthday(on_date, bd.v) THEN 1 ELSE 0))

age_on(birth_date_str, on_date) == age_of(ParseDate(birth_date_str), on_date)

NextDay(d) ==
    IF d[3] < DaysInMonth(d[1], d[2]) THEN <<d[1], d[2], d[3] + 1>>
    ELSE IF d[2] < 12 THEN <<d[1], d[2] + 1, 1>>
    ELSE <<d[1] + 1, 1, 1>>

\* start + timedelta(days=k)
RECURSIVE AddDays(_, _)
AddDays(d, k) == IF k = 0 THEN d ELSE AddDays(NextDay(d), k - 1)

DateLe(p, q) ==
    \/ p[1] < q[1]
    \/ p[1] = q[1] /\ p[2] < q[2]
    \/ p[1] = q[1] /\ p[2] = q[2] /\ p[3] <= q[3]

RECURSIVE Insert(_, _)
Insert(d, s) ==
    IF s = <<>> THEN <<d>>
    ELSE IF DateLe(d, Head(s)) THEN <<d>> \o s
    ELSE <<Head(s)>> \o Insert(d, Tail(s))

\* Mutant of sorted: the dates are taken in the order given.
sorted_as_given(s) == s

\* sorted(dates)
RECURSIVE sorted(_)
sorted(s) == IF s = <<>> THEN <<>> ELSE Insert(Head(s), sorted(Tail(s)))

MinDate(S) == CHOOSE d \in S : \A e \in S : DateLe(d, e)

\* sorted(ds) for a set
RECURSIVE sorted_set(_)
sorted_set(S) ==
    IF S = {} THEN <<>> ELSE <<MinDate(S)>> \o sorted_set(S \ {MinDate(S)})

\* A field of a csv.DictReader row: a string, None (a short row) or absent
\* (no such column).
Absent == [t |-> "absent"]

\* a.get(key, default)
Get(v, default) == IF v.t = "absent" THEN default ELSE v

\* Mutant of StripField: the field is taken as it is written.
StripField_raw(v) ==
    IF v.t = "str" THEN Returned(v.s) ELSE Raised("AttributeError", <<>>)

\* v.strip(): an AttributeError when v is None.
StripField(v) ==
    IF v.t = "str" THEN Returned(Strip(v.s)) ELSE Raised("AttributeError", <<>>)

KeyOf(f, l, t) ==
    IF f.exc # "" \/ l.exc # "" \/ t.exc # ""
    THEN Raised("AttributeError", <<>>)
    ELSE Returned(<<f.v, l.v, t.v>>)

\* (a.get("firstName","").strip(), a.get("lastName","").strip(),
\*  a.get("teamName","").strip())
AthleteKey(a) ==
    KeyOf(StripField(Get(a.firstName, PyStr(<<>>))),
          StripField(Get(a.lastName, PyStr(<<>>))),
          StripField(Get(a.teamName, PyStr(<<>>))))

\* Mutant of LevelOrDefault: an unreadable level falls back to the elite level.
LevelOrDefault_elite(i) == IF i.exc # "" THEN COMPETITIVE_LEVEL_MIN ELSE i.v

LevelOrDefault(i) == IF i.exc # "" THEN COMPETITIVE_LEVEL_DEFAULT ELSE i.v

\* Lines 284-287: int(a.get("competitiveLevel", 3)), 3 on ValueError/TypeError.
competitive_level_of(a) ==
    LevelOrDefault(IntOf(Get(a.competitiveLevel, PyInt(COMPETITIVE_LEVEL_DEFAULT))))

(***************************************************************************)
(* The random stream                                                       *)
(***************************************************************************)
\* The k-th sample after random.seed(seed), as a standard-normal outcome:
\* a fixed function of the seed and the position, between -3 and 3.
StreamZ(seed, k) == <<((seed * 5 + k * 3 + (k \div 4)) % 7) - 3, 1>>

\* random.randint(0, span) taken at position k of the stream.
StreamInt(seed, k, span) == (seed + k * k + (k \div 2)) % (span + 1)

\* round(val, 3) for val >= 0: three digits by long division, then the tie
\* to even.
Digit(r, d) == (10 * r) \div d

Rem(r, d) == (10 * r) % d

RoundUp(r, d, last) == 2 * r > d \/ (2 * r = d /\ last % 2 = 1)

Round3By(q0, d1, d2, d3, r, d) ==
    Rat(1000 * q0 + 100 * d1 + 10 * d2 + d3 + (IF RoundUp(r, d, d3) THEN 1 ELSE 0), 1000)

Round3From(q0, r0, d) ==
    Round3By(q0, Digit(r0, d), Digit(Rem(r0, d), d), Digit(Rem(Rem(r0, d), d), d),
             Rem(Rem(Rem(r0, d), d), d), d)

round3(val) == Round3From(val[1] \div val[2], val[1] % val[2], val[2])

(***************************************************************************)
(* Inputs of main                                                          *)
(***************************************************************************)
MaxTrials == 2
MaxDraws == 12

Chars(n) ==
    CASE n = "Al"    -> <<"A", "l">>
      [] n = " Al "  -> <<" ", "A", "l", " ">>
      [] n = "Bo"    -> <<"B", "o">>
      [] n = "Lee"   -> <<"L", "e", "e">>
      [] n = "T1"    -> <<"T", "1">>
      [] n = "T2"    -> <<"T", "2">>
      [] n = "2012-03-15" -> <<"2", "0", "1", "2", "-", "0", "3", "-", "1", "5">>
      [] n = "2009-02-01" -> <<"2", "0", "0", "9", "-", "0", "2", "-", "0", "1">>
      [] n = "2005-8-8"   -> <<"2", "0", "0", "5", "-", "8", "-", "8">>
      [] n = "2026-01-01" -> <<"2", "0", "2", "6", "-", "0", "1", "-", "0", "1">>
      [] n = "2012-13-45" -> <<"2", "0", "1", "2", "-", "1", "3", "-", "4", "5">>
      [] n = "03/15/2012" -> <<"0", "3", "/", "1", "5", "/", "2", "0", "1", "2">>
      [] n = "1"     -> <<"1">>
      [] n = "5"     -> <<"5">>
      [] n = "7"     -> <<"7">>
      [] n = "0"     -> <<"0">>
      [] n = " 2 "   -> <<" ", "2", " ">>
      [] n = "abc"   -> <<"a", "b", "c">>
      [] n = "3.5"   -> <<"3", ".", "5">>
      [] n = ""      -> <<>>

Row(f, l, team, birth, gender, level) ==
    [firstName |-> f, lastName |-> l, teamName |-> team, birthDate |-> birth,
     gender |-> gender, competitiveLevel |-> level]

S(n) == PyStr(Chars(n))

\* The roster rows of the modelled runs.
Athletes ==
    <<Row(S("Al"), S("Lee"), S("T1"), S("2012-03-15"), PyStr("Male"), S("1")),
      Row(S("Bo"), S("Lee"), S("T1"), S("2009-02-01"), PyStr(""), Absent),
      Row(S("Al"), S("Bo"), S("T2"), S(""), PyStr("Female"), S("5")),
      Row(S("Bo"), S("Bo"), S("T2"), S("2005-8-8"), PyStr("Female"), S("abc")),
      Row(S(" Al "), S("Lee"), S("T1"), S("2012-03-15"), PyStr("Other"), S("7")),
      Row(S("Bo"), S("Al"), PyNone, PyNone, PyNone, PyNone),
      Row(S("Lee"), S("Al"), S("T1"), S("2012-13-45"), PyStr("Male"), S("")),
      Row(S("Lee"), S("Bo"), S("T2"), S("2026-01-01"), PyStr("Male"), S(" 2 ")),
      Row(S("Lee"), S("Lee"), S("T2"), S("2009-02-01"), PyNone, S("3.5")),
      Row(S("Al"), S("Al"), S("T1"), S("03/15/2012"), PyStr("Female"), S("0")),
      Row(S("Bo"), S("Al"), S("T1"), S("2009-02-01"), PyStr("Male"), PyNone),
      Row(S("Bo"), S("Lee"), S("T2"), Absent, PyStr("Male"), S("1"))>>

RosterOf(ix) == [i \in 1..Len(ix) |-> Athletes[ix[i]]]

Rosters ==
    {RosterOf(ix) : ix \in {<<>>, <<1>>, <<2>>, <<3>>, <<4>>, <<5>>, <<6>>, <<7>>,
                           <<8>>, <<9>>, <<10>>, <<11>>, <<12>>, <<1, 2>>, <<1, 5>>, <<5, 1>>,
                           <<6, 1>>, <<1, 6>>, <<3, 4>>, <<9, 7>>}}

D1 == <<2025, 1, 15>>
D2 == <<2025, 2, 14>>
D3 == <<2025, 3, 16>>

DateLists == {<<D1>>, <<D1, D2>>, <<D2, D1>>, <<D3, D2>>, <<D1, D1>>}

Seeds == {42, 7}

Window == [start |-> <<2025, 1, 1>>, span |-> 1]

\* --dates given, or omitted with --num_random_dates n.
ArgSets ==
    {[seed |-> sd, trials |-> t, dates |-> dl, num_random_dates |-> 1] :
        sd \in Seeds, t \in 1..MaxTrials, dl \in DateLists}
    \cup {[seed |-> sd, trials |-> t, dates |-> <<>>, num_random_dates |-> n] :
        sd \in Seeds, t \in 1..MaxTrials, n \in 0..3}

NoGen == [made |-> FALSE]

NoIdx == [b |-> 1, a |-> 1, d |-> 1, m |-> 1, t |-> 1]

NoBase == [k \in {} |-> 0]

FnIdle == call = [op |-> "none"] /\ ret = Pending

MainIdle ==
    /\ pc = "idle"
    /\ args = [seed |-> 0]
    /\ roster = <<>>
    /\ dates = <<>>
    /\ ds = {}
    /\ base = NoBase
    /\ draws = 0
    /\ idx = NoIdx
    /\ rows = <<>>
    /\ gen = NoGen
    /\ err = ""

(***************************************************************************)
(* Function-level specification: a call is drawn, then applied             *)
(***************************************************************************)
InitFn ==
    /\ MainIdle
    /\ ret = Pending
    /\ \/ \E a \in AgeInputs : call = BracketCall(a)
       \/ \E a \in FactorAges, g \in Genders, ma \in MetricArgs, l \in Levels :
             call = FactorCall(a, g, ma, l)
       \/ \E m \in MetricNames, o \in GenOffsets, di \in 0..MaxDayIndex :
             \E j \in GenJitters(m), a \in GenAges, g \in GenGenders :
                \E ma \in {PyNone, PyStr(m)}, l \in GenLevels, z \in (-MaxZ)..MaxZ :
                   call = GenValueCall(m, o, di, j, a, g, ma, l, z)

CallGetAgeBracket ==
    /\ call.op = "get_age_bracket"
    /\ ret = Pending
    /\ ret' = get_age_bracket(call.age)
    /\ UNCHANGED <<call, mainVars>>

CallGetAdjustmentFactor ==
    /\ call.op = "get_adjustment_factor"
    /\ ret = Pending
    /\ ret' = get_adjustment_factor(call.age, call.gender, call.metric, call.spec,
                                    call.level)
    /\ UNCHANGED <<call, mainVars>>

CallGenValue ==
    /\ call.op = "gen_value"
    /\ ret = Pending
    /\ ret' = gen_value(call.spec, call.base_offset, call.day_index, call.jitter_sd,
                        call.age, call.gender, call.metric, call.level, call.z)
    /\ UNCHANGED <<call, mainVars>>

NextFn == CallGetAgeBracket \/ CallGetAdjustmentFactor \/ CallGenValue

SpecFn == InitFn /\ [][NextFn]_vars

(***************************************************************************)
(* main                                                                    *)
(***************************************************************************)
Init ==
    /\ FnIdle
    /\ pc = "start"
    /\ args \in ArgSets
    /\ roster \in Rosters
    /\ dates = <<>>
    /\ ds = {}
    /\ base = NoBase
    /\ draws = 0
    /\ idx = NoIdx
    /\ rows = <<>>
    /\ gen = NoGen
    /\ err = ""

\* Mutant of Start: the empty roster is not looked at.
Start_unchecked ==
    /\ pc = "start"
    /\ IF args.dates # <<>>
       THEN pc' = "baseline" /\ dates' = args.dates /\ UNCHANGED err
       ELSE pc' = "rand_dates" /\ UNCHANGED <<dates, err>>
    /\ UNCHANGED <<fnVars, args, roster, ds, base, draws, idx, rows, gen>>

\* Lines 254-266: seed, read the roster, exit on an empty one, resolve the
\* dates given on the command line or start rand_dates.
Start ==
    /\ pc = "start"
    /\ IF roster = <<>>
       THEN pc' = "exit1" /\ err' = "No roster rows found." /\ UNCHANGED dates
       ELSE IF args.dates # <<>>
       THEN pc' = "baseline" /\ dates' = args.dates /\ UNCHANGED err
       ELSE pc' = "rand_dates" /\ UNCHANGED <<dates, err>>
    /\ UNCHANGED <<fnVars, args, roster, ds, base, draws, idx, rows, gen>>

\* Mutant of RandDate: the date is drawn from an unseeded generator.
RandDate_unseeded ==
    /\ pc = "rand_dates"
    /\ Cardinality(ds) < args.num_random_dates
    /\ draws < MaxDraws
    /\ \E r \in 0..Window.span : ds' = ds \cup {AddDays(Window.start, r)}
    /\ draws' = draws + 1
    /\ UNCHANGED <<fnVars, pc, args, roster, dates, base, idx, rows, gen, err>>

\* Lines 100-101: one iteration of rand_dates' loop.
RandDate ==
    /\ pc = "rand_dates"
    /\ Cardinality(ds) < args.num_random_dates
    /\ draws < MaxDraws
    /\ ds' = ds \cup {AddDays(Window.start, StreamInt(args.seed, draws + 1, Window.span))}
    /\ draws' = draws + 1
    /\ UNCHANGED <<fnVars, pc, args, roster, dates, base, idx, rows, gen, err>>

\* Line 102: rand_dates returns sorted(ds).
RandDatesReturn ==
    /\ pc = "rand_dates"
    /\ Cardinality(ds) >= args.num_random_dates
    /\ dates' = sorted_set(ds)
    /\ pc' = "baseline"
    /\ UNCHANGED <<fnVars, args, roster, ds, base, draws, idx, rows, gen, err>>

\* per_metric of lines 216-219: one gauss(0.0, sd * 0.5) per metric, in the
\* catalog's order, from position k + 1 of the stream on.
\* Mutant of PerMetric: the metrics are drawn in the reverse of the catalog's
\* order.
PerMetric_reversed(seed, k) ==
    [m \in MetricNames |->
        gauss(<<0, 1>>, RMul(METRICS[m].sd, <<1, 2>>),
              StreamZ(seed, k + Len(MetricOrder) + 1 - MetricIndex(m)))]

PerMetric(seed, k) ==
    [m \in MetricNames |->
        gauss(<<0, 1>>, RMul(METRICS[m].sd, <<1, 2>>),
              StreamZ(seed, k + MetricIndex(m)))]

BaselineFor(key) ==
    IF key.exc # ""
    THEN /\ pc' = "crashed"
         /\ err' = key.exc
         /\ UNCHANGED <<base, draws, idx>>
    ELSE /\ base' = [k \in DOMAIN base \cup {key.v} |->
                        IF k = key.v THEN PerMetric(args.seed, draws) ELSE base[k]]
         /\ draws' = draws + Len(MetricOrder)
         /\ idx' = [idx EXCEPT !.b = idx.b + 1]
         /\ UNCHANGED <<pc, err>>

\* Lines 214-220: athlete_baseline_offsets for one roster row.
BaselineRow ==
    /\ pc = "baseline"
    /\ idx.b <= Len(roster)
    /\ BaselineFor(AthleteKey(roster[idx.b]))
    /\ UNCHANGED <<fnVars, args, roster, dates, ds, rows, gen>>

\* Lines 221, 271-275: the offsets are returned and the output file is
\* opened with its header.
OpenOutput ==
    /\ pc = "baseline"
    /\ idx.b > Len(roster)
    /\ pc' = "generate"
    /\ UNCHANGED <<fnVars, args, roster, dates, ds, base, draws, idx, rows, gen, err>>

\* The loop positions after the trial at idx.
NextIdx ==
    IF idx.t < args.trials THEN [idx EXCEPT !.t = idx.t + 1]
    ELSE IF idx.m < Len(MetricOrder) THEN [idx EXCEPT !.t = 1, !.m = idx.m + 1]
    ELSE IF idx.d < Len(dates) THEN [idx EXCEPT !.t = 1, !.m = 1, !.d = idx.d + 1]
    ELSE [idx EXCEPT !.t = 1, !.m = 1, !.d = 1, !.a = idx.a + 1]

OutputRow(a, key, d, age, metric, val) ==
    [firstName |-> key[1], lastName |-> key[2], gender |-> Get(a.gender, PyStr("")),
     teamName |-> Get(a.teamName, PyStr(<<>>)), date |-> d, age |-> age,
     metric |-> metric, value |-> round3(val.v), units |-> METRICS[metric].units,
     flyInDistance |-> IF metric = "FLY10_TIME" THEN METRICS[metric].flyInDistance ELSE "",
     notes |-> "Auto-generated"]

GenCall(a, key, d, age, metric, level, val) ==
    IF val.exc # ""
    THEN /\ pc' = "crashed"
         /\ err' = val.exc
         /\ UNCHANGED <<rows, gen, idx, draws>>
    ELSE /\ rows' = Append(rows, OutputRow(a, key, d, age, metric, val))
         /\ gen' = [made |-> TRUE, athlete |-> idx.a, metric |-> metric, age |-> age,
                    gender |-> Get(a.gender, PyStr("")), level |-> level,
                    day_index |-> idx.d - 1, offset |-> base[key][metric],
                    center |-> val.center, value |-> val.v]
         /\ idx' = NextIdx
         /\ draws' = draws + 1
         /\ UNCHANGED <<pc, err>>

GenFor(a, key, d, age, metric, level) ==
    GenCall(a, key, d, age, metric, level,
            gen_value(METRICS[metric], base[key][metric], idx.d - 1,
                      RMul(METRICS[metric].sd, <<1, 2>>), age,
                      Get(a.gender, PyStr("")), PyStr(metric), PyInt(level),
                      StreamZ(args.seed, draws + 1)))

GenAt(a, d, metric) ==
    GenFor(a, AthleteKey(a).v, d, age_on(Get(a.birthDate, PyStr(<<>>)), d), metric,
           competitive_level_of(a))

\* Mutant of GenRow: the offsets are drawn again after every trial.
GenRow_redraw ==
    /\ pc = "generate"
    /\ idx.a <= Len(roster)
    /\ dates # <<>>
    /\ args.trials >= 1
    /\ GenAt(roster[idx.a], sorted(dates)[idx.d], MetricOrder[idx.m])
    /\ base' = [k \in DOMAIN base |-> PerMetric(args.seed, draws)]
    /\ UNCHANGED <<fnVars, args, roster, dates, ds>>

\* Lines 277-311: one trial: the athlete's fields, the age on the date, the
\* value and the row written.
GenRow ==
    /\ pc = "generate"
    /\ idx.a <= Len(roster)
    /\ dates # <<>>
    /\ args.trials >= 1
    /\ GenAt(roster[idx.a], sorted(dates)[idx.d], MetricOrder[idx.m])
    /\ UNCHANGED <<fnVars, args, roster, dates, ds, base>>

\* Lines 313-314: the loops are over; the file is closed and the summary
\* printed.
Finish ==
    /\ pc = "generate"
    /\ idx.a > Len(roster) \/ dates = <<>> \/ args.trials < 1
    /\ pc' = "done"
    /\ UNCHANGED <<fnVars, args, roster, dates, ds, base, draws, idx, rows, gen, err>>

Next ==
    \/ Start
    \/ RandDate
    \/ RandDatesReturn
    \/ BaselineRow
    \/ OpenOutput
    \/ GenRow
    \/ Finish

Spec == Init /\ [][Next]_vars

(***************************************************************************)
(* Properties of the adjustment functions and of gen_value                 *)
(***************************************************************************)
Applied(op) == call.op = op /\ ret # Pending

\* C1: every value gen_value returns lies within the metric's bounds,
\* spec.min <= value <= spec.max, whatever the offset, day index, jitter
\* draw, age, gender and competitive level.
C1_ValueWithinBounds ==
    (Applied("gen_value") /\ ret.exc = "")
        => RLe(call.spec.min, ret.v) /\ RLe(ret.v, call.spec.max)

\* A value generated with the extreme offset +10 was clamped to spec.max,
\* and another with -10 sits at spec.min.
C1_Witness ==
    /\ Applied("gen_value")
    /\ call.base_offset = Rat(10, 1)
    /\ call.age = PyInt(13)
    /\ ret.exc = ""
    /\ ret.v = call.spec.max

\* The numeric value of an age given as an integer, a float or a numeric
\* string; numeric is FALSE for everything else.
AgeNumber(age) ==
    LET f == FloatOf(age)
    IN  IF age.t \in {"int", "float", "str"} /\ f.exc = "" /\ f.v.sp = "fin"
        THEN [numeric |-> TRUE, q |-> f.v.q]
        ELSE [numeric |-> FALSE, q |-> <<0, 1>>]

InValidRange(q) == RLe(<<0, 1>>, q) /\ RLe(q, <<100, 1>>)

\* The bracket the partition assigns to an integer part k.
BracketOfIntegerPart(k) ==
    IF k < 14 THEN "middle_school"
    ELSE IF k <= 15 THEN "young_hs"
    ELSE IF k <= 17 THEN "older_hs"
    ELSE "college_plus"

\* C2: for every age in [0,100], given as an integer, a float or a numeric
\* string, get_age_bracket returns the bracket of the age's integer part:
\* < 14 middle_school, 14..15 young_hs, 16..17 older_hs, >= 18 college_plus.
C2_AgeBracketPartition ==
    (Applied("get_age_bracket") /\ AgeNumber(call.age).numeric
        /\ InValidRange(AgeNumber(call.age).q))
        => LET q == AgeNumber(call.age).q
           IN  ret = Returned(BracketOfIntegerPart(q[1] \div q[2]))

\* The float 13.9 was mapped to middle_school.
C2_Witness ==
    /\ Applied("get_age_bracket")
    /\ call.age = PyFloat(Rat(139, 10))
    /\ ret = Returned("middle_school")

\* C3: get_age_bracket is total: for every kind of input it returns a
\* bracket without raising, and an input that cannot be converted to an
\* integer yields college_plus.
C3_AgeBracketTotal ==
    Applied("get_age_bracket")
        => /\ ret.exc = ""
           /\ ~AgeNumber(call.age).numeric => ret.v = "college_plus"

\* C4: every numeric age a with a < 0 or a > 100, integer or fractional,
\* maps to college_plus.
C4_OutOfRangeIsCollegePlus ==
    (Applied("get_age_bracket") /\ AgeNumber(call.age).numeric
        /\ ~InValidRange(AgeNumber(call.age).q))
        => ret = Returned("college_plus")

RDiv(p, q) == RMul(p, Rat(q[2], q[1]))

\* The reference formula of the adjustment factor, for a bracket b.
ReferenceFactor(b, gender, metric, better, level) ==
    LET am == AGE_BRACKETS[b]
        gm == IF metric \in DOMAIN GENDER_ADJUSTMENTS
                 /\ gender \in {PyStr("Male"), PyStr("Female")}
              THEN GENDER_ADJUSTMENTS[metric][gender.s]
              ELSE <<1, 1>>
        lm == IF level \in {PyInt(l) : l \in DOMAIN COMPETITIVE_LEVEL_ADJUSTMENTS}
              THEN COMPETITIVE_LEVEL_ADJUSTMENTS[level.n]
              ELSE <<1, 1>>
    IN  IF better = "higher" THEN RMul(am, RMul(gm, lm))
                             ELSE RDiv(RDiv(gm, am), lm)

\* C5: whenever get_age_bracket returns a bracket for the age,
\* get_adjustment_factor equals age_mult * gender_mult * level_mult for a
\* higher-is-better metric and gender_mult / age_mult / level_mult for a
\* lower-is-better one, the gender and level multipliers defaulting to 1.0;
\* an adult Male at the default level gets exactly 1.0.
C5_FactorFormula ==
    (Applied("get_adjustment_factor") /\ get_age_bracket(call.age).exc = "")
        => /\ ret = Returned(ReferenceFactor(get_age_bracket(call.age).v, call.gender,
                                             call.metric, call.spec.better, call.level))
           /\ (call.age = PyInt(18) /\ call.gender = PyStr("Male")
                   /\ call.level \in {PyNone, PyInt(3)})
               => ret.v = <<1, 1>>

\* A 13-year-old Female at level 1 on a lower-is-better metric got
\* 1.08 / 0.80 / 1.15 = 27/23.
C5_Witness ==
    /\ Applied("get_adjustment_factor")
    /\ call.age = PyInt(13)
    /\ call.gender = PyStr("Female")
    /\ call.metric = "FLY10_TIME"
    /\ call.level = PyInt(1)
    /\ ret = Returned(<<27, 23>>)

\* C6: get_adjustment_factor raises no error and returns a strictly
\* positive factor for every age, gender, metric name and level.
C6_FactorPositiveNoError ==
    Applied("get_adjustment_factor") => ret.exc = "" /\ ret.v[1] > 0

BracketRank(b) == CHOOSE i \in 1..Len(Brackets) : Brackets[i] = b

\* C7: for a fixed metric, gender and level, the factor of an age in a
\* lower bracket is strictly below the factor of an age in a higher bracket
\* when the metric is higher-is-better, and strictly above it when the
\* metric is lower-is-better.
C7_BracketMonotone ==
    (Applied("get_adjustment_factor") /\ ret.exc = "")
        => \A a2 \in FactorAges :
              LET b1 == get_age_bracket(call.age).v
                  b2 == get_age_bracket(a2)
                  r2 == get_adjustment_factor(a2, call.gender, call.metric,
                                              call.spec, call.level)
              IN  (b2.exc = "" /\ BracketRank(b1) < BracketRank(b2.v))
                      => IF call.spec.better = "higher"
                         THEN RLt(ret.v, r2.v)
                         ELSE RLt(r2.v, ret.v)

\* The factor of a 15-year-old (young_hs) on a lower-is-better metric was
\* computed, to be compared with the older brackets.
C7_Witness ==
    /\ Applied("get_adjustment_factor")
    /\ call.age = PyInt(15)
    /\ call.spec.better = "lower"
    /\ call.gender = PyStr("Female")
    /\ ret.exc = ""
    /\ RLt(<<1, 1>>, ret.v)

\* C8: when gender is anything other than exactly "Male" or "Female", or
\* the metric has no entry in GENDER_ADJUSTMENTS, no lookup error is raised
\* and the outcome is the one for a Male of the same age and level, i.e.
\* the factor with a gender multiplier of 1.0.
C8_GenderFallback ==
    (Applied("get_adjustment_factor")
        /\ (call.gender \notin {PyStr("Male"), PyStr("Female")}
             \/ call.metric \notin DOMAIN GENDER_ADJUSTMENTS))
        => /\ ret.exc \notin {"KeyError", "TypeError", "AttributeError"}
           /\ ret = get_adjustment_factor(call.age, PyStr("Male"), call.metric,
                                          call.spec, call.level)
           /\ ret.exc = ""
               => ret.v = ReferenceFactor(get_age_bracket(call.age).v, PyNone,
                                          "FAKE_METRIC", call.spec.better, call.level)

\* A 13-year-old with gender None at level 5 on VERTICAL_JUMP got the Male
\* factor 0.80 * 0.85 = 17/25.
C8_Witness ==
    /\ Applied("get_adjustment_factor")
    /\ call.age = PyInt(13)
    /\ call.gender = PyNone
    /\ call.metric = "VERTICAL_JUMP"
    /\ call.level = PyInt(5)
    /\ ret = Returned(<<17, 25>>)

(***************************************************************************)
(* Properties of the generation loop                                       *)
(***************************************************************************)
\* C9: for an athlete with a valid age and an unknown or blank gender, the
\* center a value is generated around is metric.center * factor with only
\* the gender multiplier defaulted to 1.0, the age-bracket and level
\* multipliers still applied: the center of a Male of that age and level.
C9_UnknownGenderCenter ==
    (gen.made /\ gen.age.t = "int" /\ gen.age.n \in 0..100
        /\ gen.gender \notin {PyStr("Male"), PyStr("Female")})
        => gen.center =
              RMul(METRICS[gen.metric].center,
                   get_adjustment_factor(gen.age, PyStr("Male"), gen.metric,
                                         METRICS[gen.metric], PyInt(gen.level)).v)

\* The competitiveLevel fields that are missing, blank, non-numeric or an
\* integer outside 1..5.
BadLevels == {Absent, PyNone, S(""), S("abc"), S("3.5"), S("7"), S("0")}

\* C10: a roster record whose competitiveLevel is missing, blank,
\* non-numeric or an integer outside 1..5 is generated with level
\* multiplier 1.0, and reading the level never ends the run with an error.
C10_LevelFallback ==
    /\ err \notin {"ValueError", "TypeError"}
    /\ (gen.made /\ roster[gen.athlete].competitiveLevel \in BadLevels)
        => /\ comp_level_mult(PyInt(gen.level)) = <<1, 1>>
           /\ gen.center = gen_center(METRICS[gen.metric], gen.age, gen.gender,
                                      PyStr(gen.metric), PyNone).v

\* A 19-year-old Female whose level is "abc" was generated around an
\* adjusted center.
C10_Witness ==
    /\ gen.made
    /\ roster[gen.athlete].competitiveLevel = S("abc")
    /\ gen.age = PyInt(19)
    /\ gen.metric = "VERTICAL_JUMP"
    /\ gen.center = Rat(235 * 75, 1000)

\* The birthDate fields that are missing, blank or no %Y-%m-%d date.
BadBirthDates == {Absent, PyNone, S(""), S("2012-13-45"), S("03/15/2012")}

\* C11: for a roster record whose birth date is blank or unparsable, the age
\* is the empty value on every date and every value is generated around the
\* unadjusted metric center, whatever the gender and competitive level.
C11_NeutralFallback ==
    (gen.made /\ roster[gen.athlete].birthDate \in BadBirthDates)
        => /\ gen.age = PyStr(<<>>)
           /\ gen.center = METRICS[gen.metric].center

\* A Female of level 5 with a blank birth date was generated on the second
\* date around the plain center.
C11_Witness ==
    /\ gen.made
    /\ roster[gen.athlete].birthDate = S("")
    /\ gen.gender = PyStr("Female")
    /\ gen.level = 5
    /\ gen.day_index = 1
    /\ gen.center = METRICS[gen.metric].center

\* The dates and the stream position rand_dates ends with, as a function of
\* the seed and the number of dates asked for.
RECURSIVE RandDs(_, _, _, _)
RandDs(seed, n, k, acc) ==
    IF Cardinality(acc) >= n \/ k >= MaxDraws THEN [ds |-> acc, k |-> k]
    ELSE RandDs(seed, n, k + 1,
                acc \cup {AddDays(Window.start, StreamInt(seed, k + 1, Window.span))})

\* The dates of a run and the samples taken before the baselines, from the
\* command line alone.
RunDates(a) ==
    IF a.dates # <<>> THEN sorted(a.dates)
    ELSE sorted_set(RandDs(a.seed, a.num_random_dates, 0, {}).ds)

RunFirstDraw(a) ==
    IF a.dates # <<>> THEN 0 ELSE RandDs(a.seed, a.num_random_dates, 0, {}).k

\* The last roster record with the key of record i: its offsets are the ones
\* the dictionary keeps.
LastWithKey(r, i) ==
    CHOOSE j \in 1..Len(r) :
        /\ AthleteKey(r[j]) = AthleteKey(r[i])
        /\ \A h \in (j + 1)..Len(r) : AthleteKey(r[h]) # AthleteKey(r[i])

RunOffset(a, r, i, metric) ==
    gauss(<<0, 1>>, RMul(METRICS[metric].sd, <<1, 2>>),
          StreamZ(a.seed, RunFirstDraw(a) + Len(MetricOrder) * (LastWithKey(r, i) - 1)
                            + MetricIndex(metric)))

\* Row n (from 0) of a run of the command line a over the roster r: athlete
\* ia, date number id and metric number im.
RunRowAt(a, r, n, ia, id, im) ==
    [firstName |-> AthleteKey(r[ia]).v[1], lastName |-> AthleteKey(r[ia]).v[2],
     gender |-> Get(r[ia].gender, PyStr("")),
     teamName |-> Get(r[ia].teamName, PyStr(<<>>)),
     date |-> RunDates(a)[id],
     age |-> age_on(Get(r[ia].birthDate, PyStr(<<>>)), RunDates(a)[id]),
     metric |-> MetricOrder[im],
     value |-> round3(gen_value(METRICS[MetricOrder[im]],
                                RunOffset(a, r, ia, MetricOrder[im]), id - 1,
                                RMul(METRICS[MetricOrder[im]].sd, <<1, 2>>),
                                age_on(Get(r[ia].birthDate, PyStr(<<>>)), RunDates(a)[id]),
                                Get(r[ia].gender, PyStr("")), PyStr(MetricOrder[im]),
                                PyInt(competitive_level_of(r[ia])),
                                StreamZ(a.seed, RunFirstDraw(a) + Len(MetricOrder) * Len(r)
                                                  + n + 1)).v),
     units |-> METRICS[MetricOrder[im]].units,
     flyInDistance |-> IF MetricOrder[im] = "FLY10_TIME"
                       THEN METRICS[MetricOrder[im]].flyInDistance ELSE "",
     notes |-> "Auto-generated"]

RowsPerDate(a) == Len(MetricOrder) * a.trials

RowsPerAthlete(a) == Len(RunDates(a)) * RowsPerDate(a)

RunRow(a, r, n) ==
    RunRowAt(a, r, n, (n \div RowsPerAthlete(a)) + 1,
             ((n % RowsPerAthlete(a)) \div RowsPerDate(a)) + 1,
             ((n % RowsPerDate(a)) \div a.trials) + 1)

\* C12: the rows written and the number of samples taken from the stream are
\* a function of the seed, the roster, the requested dates (or the number of
\* random dates) and the trial count alone, so two runs that agree on these
\* write the same rows in the same order.
C12_Determinism ==
    /\ \A i \in 1..Len(rows) : rows[i] = RunRow(args, roster, i - 1)
    /\ pc \in {"generate", "done"}
        => draws = RunFirstDraw(args) + Len(MetricOrder) * Len(roster) + Len(rows)

\* A finished run over two athletes and random dates that wrote rows.
C12_Witness ==
    /\ pc = "done"
    /\ args.dates = <<>>
    /\ Len(roster) = 2
    /\ Len(dates) = 2
    /\ Len(rows) = 2 * 2 * Len(MetricOrder) * args.trials

(***************************************************************************)
(* Sessions: the dates of one athlete and metric, in ascending order       *)
(***************************************************************************)
RECURSIVE DaysBeforeMonth(_, _)
DaysBeforeMonth(y, m) ==
    IF m = 1 THEN 0 ELSE DaysBeforeMonth(y, m - 1) + DaysInMonth(y, m - 1)

\* The number of the day d, counted from 0001-01-01.
Ordinal(d) ==
    365 * (d[1] - 1) + ((d[1] - 1) \div 4) - ((d[1] - 1) \div 100)
        + ((d[1] - 1) \div 400) + DaysBeforeMonth(d[1], d[2]) + d[3]

DaysBetween(d, e) == Ordinal(e) - Ordinal(d)

Max(a, b) == IF a >= b THEN a ELSE b

\* The minimum required improvement rate of FLY10_TIME (lower is better),
\* per day.
progress_per_day_FLY10 == Rat(-12, 10000)

\* The date of the session a generated value belongs to, and of the one
\* before it.
SessionDate == sorted(dates)[gen.day_index + 1]

PreviousDate == sorted(dates)[gen.day_index]

\* The mean gen_value draws around: center + base_offset + trend.
BasisOf(center, offset, metric, day_index) ==
    RAdd(RAdd(center, offset), RScale(day_index, METRICS[metric].drift_per_day))

\* The value basis of the session of the last generated value, and of the
\* same athlete's and metric's session on the date before.
SessionBasis == BasisOf(gen.center, gen.offset, gen.metric, gen.day_index)

PreviousBasis ==
    BasisOf(gen_center(METRICS[gen.metric],
                       age_on(Get(roster[gen.athlete].birthDate, PyStr(<<>>)),
                              PreviousDate),
                       gen.gender, PyStr(gen.metric), PyInt(gen.level)).v,
            gen.offset, gen.metric, gen.day_index - 1)

required_delta ==
    RScale(Max(1, DaysBetween(PreviousDate, SessionDate)), progress_per_day_FLY10)

\* C13: for FLY10_TIME (lower is better), on every date after an athlete's
\* first the session's value basis does not exceed the previous session's
\* basis + progress_per_day * max(1, days between the two dates).
C13_ProgressionMonotone ==
    (gen.made /\ gen.metric = "FLY10_TIME" /\ gen.day_index >= 1)
        => RLe(SessionBasis, RAdd(PreviousBasis, required_delta))

\* C14: the trend term of every generated value is drift_per_day times the
\* number of calendar days from the earliest requested date to the value's
\* date.
C14_DriftUsesElapsedDays ==
    gen.made
        => RScale(gen.day_index, METRICS[gen.metric].drift_per_day)
              = RScale(DaysBetween(sorted(dates)[1], SessionDate),
                       METRICS[gen.metric].drift_per_day)

\* The value of the last generated trial before it is clamped.
TrialBeforeClamp ==
    gauss(SessionBasis, RMul(METRICS[gen.metric].sd, <<1, 2>>),
          StreamZ(args.seed, draws))

\* C15: for FLY10_TIME (lower is better), a trial on a date after the
\* athlete's first is, before clamping, not above the previous session's
\* basis + 0.5 * required_delta.
C15_TrialRelaxedConstraint ==
    (gen.made /\ gen.metric = "FLY10_TIME" /\ gen.day_index >= 1)
        => RLe(TrialBeforeClamp,
               RAdd(PreviousBasis, RMul(<<1, 2>>, required_delta)))

\* The run is over: it returned from main or ended with an exception.
Ended == pc \in {"done", "crashed"}

\* Row i is the one of athlete ia, date number id and metric number im.
RowIsOf(i, ia, id, im) ==
    /\ ia \in 1..Len(roster)
    /\ rows[i].firstName = Strip(roster[ia].firstName.s)
    /\ rows[i].lastName = Strip(roster[ia].lastName.s)
    /\ rows[i].date = sorted(dates)[id]
    /\ rows[i].metric = MetricOrder[im]

\* C16: a run over a non-empty roster ends with exactly
\* |roster| * |dates| * |METRICS| * trials rows, the rows of one athlete
\* contiguous and in roster order, ordered by date, then metric, then trial.
C16_OutputComplete ==
    (Ended /\ roster # <<>>)
        => /\ Len(rows) = Len(roster) * Len(dates) * Len(MetricOrder) * args.trials
           /\ \A i \in 1..Len(rows) :
                 RowIsOf(i,
                         ((i - 1) \div (Len(dates) * Len(MetricOrder) * args.trials)) + 1,
                         (((i - 1) % (Len(dates) * Len(MetricOrder) * args.trials))
                             \div (Len(MetricOrder) * args.trials)) + 1,
                         (((i - 1) % (Len(MetricOrder) * args.trials)) \div args.trials) + 1)

\* The three key fields of a record are texts.
HasNames(a) ==
    a.firstName.t = "str" /\ a.lastName.t = "str" /\ a.teamName.t = "str"

\* Two records with the same (firstName, lastName, teamName) after trimming.
SameAthlete(a, b) ==
    /\ HasNames(a) /\ HasNames(b)
    /\ Strip(a.firstName.s) = Strip(b.firstName.s)
    /\ Strip(a.lastName.s) = Strip(b.lastName.s)
    /\ Strip(a.teamName.s) = Strip(b.teamName.s)

Collides(r) == \E i, j \in 1..Len(r) : i # j /\ SameAthlete(r[i], r[j])

\* C17: when two roster records have the same trimmed (firstName, lastName,
\* teamName), every value of either record is generated with the offsets
\* stored for the other one's key, and the run does not fail.
C17_CollisionsShareBaseline ==
    /\ Collides(roster) => (pc # "crashed" /\ err = "")
    /\ \A j \in 1..Len(roster) :
          (gen.made /\ j # gen.athlete /\ SameAthlete(roster[gen.athlete], roster[j]))
              => gen.offset = base[AthleteKey(roster[j]).v][gen.metric]

\* The second of two colliding records (" Al " and "Al") got a value with a
\* non-zero offset.
C17_Witness ==
    /\ gen.made
    /\ gen.athlete = 2
    /\ SameAthlete(roster[1], roster[2])
    /\ roster[1].firstName # roster[2].firstName
    /\ gen.offset # <<0, 1>>
    /\ gen.offset = base[AthleteKey(roster[1]).v][gen.metric]

\* C18: once athlete_baseline_offsets has returned, no step of the date and
\* trial generation changes an offset, and every value is generated with the
\* offset stored for its athlete and metric.
C18_BaselineStable ==
    [][/\ pc = "generate" => base' = base
       /\ (pc = "generate" /\ gen'.made /\ gen' # gen)
            => gen'.offset = base[AthleteKey(roster[gen'.athlete]).v][gen'.metric]]_vars

\* A run of two dates and two trials ended, its last value generated with a
\* non-zero offset.
C18_Witness ==
    /\ pc = "done"
    /\ Len(dates) = 2
    /\ args.trials = 2
    /\ gen.made
    /\ gen.day_index = 1
    /\ gen.offset # <<0, 1>>

\* C19: no roster record aborts the run: it never ends with an exception,
\* and a finished run has written the rows of every record.
C19_FailSoft ==
    /\ pc # "crashed"
    /\ pc = "done"
        => Len(rows) = Len(roster) * Len(dates) * Len(MetricOrder) * args.trials

\* C20: with an empty roster the run goes from its start straight to the
\* error exit (status 1, the error reported): no date or offset is drawn, and
\* the steps that open and write the output file are never reached.
C20_EmptyRosterFatal ==
    roster = <<>>
        => /\ pc \in {"start", "exit1"}
           /\ pc = "exit1" => err = "No roster rows found."
           /\ draws = 0 /\ ds = {} /\ dates = <<>> /\ base = NoBase
           /\ rows = <<>> /\ gen = NoGen

\* A run over an empty roster, asked for random dates, has exited.
C20_Witness ==
    /\ roster = <<>>
    /\ pc = "exit1"
    /\ args.dates = <<>>
    /\ args.num_random_dates = 2

\* The row written last: the one of the last generated value.
LastRow == rows[Len(rows)]

\* C21: the age of every row written is empty or a non-negative integer, and
\* it is empty exactly when the record's birth date is blank or unparsable,
\* also when the birth date is later than the test date.
C21_AgeWritten ==
    gen.made
        => /\ (LastRow.age = PyStr(<<>>))
                <=> (roster[gen.athlete].birthDate \in BadBirthDates)
           /\ LastRow.age # PyStr(<<>>)
                => (LastRow.age.t = "int" /\ LastRow.age.n >= 0)

(***************************************************************************)
(* Further properties of get_adjustment_factor                             *)
(***************************************************************************)
\* The factor of a Male of the call's metric and level, at the age a.
MaleFactor(a) ==
    get_adjustment_factor(a, PyStr("Male"), call.metric, call.spec, call.level)

\* C22: for every catalog metric, age and level, the Female factor is
\* strictly below the Male factor when the metric is higher-is-better and
\* strictly above it when it is lower-is-better; and for a higher-is-better
\* metric factor(13, Female) < factor(13, Male) < factor(18, Male).
C22_GenderDirection ==
    (Applied("get_adjustment_factor") /\ ret.exc = ""
        /\ call.gender = PyStr("Female") /\ call.metric \in MetricNames)
        => /\ IF call.spec.better = "higher"
              THEN RLt(ret.v, MaleFactor(call.age).v)
              ELSE RLt(MaleFactor(call.age).v, ret.v)
           /\ (call.spec.better = "higher" /\ call.age = PyInt(13))
                => /\ RLt(ret.v, MaleFactor(PyInt(13)).v)
                   /\ RLt(MaleFactor(PyInt(13)).v, MaleFactor(PyInt(18)).v)

\* A 13-year-old Female at level 3 on VERTICAL_JUMP got 0.80 * 0.75 = 3/5.
C22_Witness ==
    /\ Applied("get_adjustment_factor")
    /\ call.age = PyInt(13)
    /\ call.gender = PyStr("Female")
    /\ call.metric = "VERTICAL_JUMP"
    /\ call.level = PyInt(3)
    /\ ret = Returned(<<3, 5>>)

(***************************************************************************)
(* Further properties of the run                                           *)
(***************************************************************************)
\* The offsets made of the samples number first + 1 .. first + |METRICS| of
\* the stream, in the catalog's order.
OffsetsFrom(first) ==
    [m \in MetricNames |->
        RMul(StreamZ(args.seed, first + MetricIndex(m)), RMul(METRICS[m].sd, <<1, 2>>))]

\* C23: athlete_baseline_offsets is entered once, from the start of the run
\* (after the seeding and the resolution of the dates) and before any value
\* is generated, and is not entered again; each of its steps takes the next
\* roster record and draws |METRICS| samples for it in catalog order, so the
\* k-th record's offsets are samples |METRICS|*(k-1)+1 .. |METRICS|*k of
\* the call; values are generated only after every record has its offsets.
C23_BaselineProtocol ==
    [][/\ (pc # "baseline" /\ pc' = "baseline")
            => /\ pc \in {"start", "rand_dates"}
               /\ idx.b = 1 /\ base = NoBase /\ rows = <<>> /\ gen = NoGen
               /\ draws = RunFirstDraw(args)
       /\ (pc = "baseline" /\ pc' = "baseline")
            => /\ idx'.b = idx.b + 1
               /\ draws = RunFirstDraw(args) + Len(MetricOrder) * (idx.b - 1)
               /\ draws' = draws + Len(MetricOrder)
               /\ base'[AthleteKey(roster[idx.b]).v] = OffsetsFrom(draws)
               /\ rows' = <<>> /\ gen' = NoGen
       /\ (pc = "baseline" /\ pc' = "generate") => idx.b = Len(roster) + 1
       /\ pc \in {"generate", "done", "crashed", "exit1"} => pc' # "baseline"
       /\ gen'.made
            => (pc = "generate" /\ idx.b = Len(roster) + 1
                /\ draws >= RunFirstDraw(args) + Len(MetricOrder) * Len(roster))]_vars

\* After two random dates were drawn, the offsets of the second of two
\* records have been drawn.
C23_Witness ==
    /\ pc = "baseline"
    /\ args.dates = <<>>
    /\ Len(dates) = 2
    /\ Len(roster) = 2
    /\ idx.b = 3
    /\ draws = RunFirstDraw(args) + 2 * Len(MetricOrder)
    /\ RunFirstDraw(args) >= 2

\* The rows one athlete gets, and the number (from 1) of the session row i
\* belongs to.
RowsOfAthlete == Len(dates) * Len(MetricOrder) * args.trials

SessionOfRow(i) == (((i - 1) % RowsOfAthlete) \div (Len(MetricOrder) * args.trials)) + 1

StrictlyBefore(d, e) == DateLe(d, e) /\ d # e

\* C24: for each athlete and metric the dates are visited in strictly
\* ascending order: every earlier row of the same athlete and metric that
\* belongs to a previous session carries a strictly earlier date than the
\* row just written.
C24_DatesStrictlyAscending ==
    gen.made
        => \A i \in ((gen.athlete - 1) * RowsOfAthlete + 1)..(Len(rows) - 1) :
              (rows[i].metric = LastRow.metric /\ SessionOfRow(i) # gen.day_index + 1)
                  => StrictlyBefore(rows[i].date, LastRow.date)

\* The sessions of a run: one per roster record, date and metric.
Sessions == Len(roster) * Len(dates) * Len(MetricOrder)

\* C25: every session draws one anchor and then its T trials around it, so
\* the sessions of a finished run have taken 1 + T samples each from the
\* stream, after the ones of the dates and the baselines.
C25_TwoLevelSampling ==
    pc = "done"
        => draws = RunFirstDraw(args) + Len(MetricOrder) * Len(roster)
                      + Sessions * (1 + args.trials)

\* The run as a sequential program: rand_dates, once called, keeps taking
\* its next step, an iteration of its loop or its return.
SpecLive == Spec /\ WF_vars(RandDate) /\ WF_vars(RandDatesReturn)

\* The days of the window rand_dates draws from.
WindowDates == {AddDays(Window.start, k) : k \in 0..Window.span}

\* C26: rand_dates terminates for every n >= 0, also for an n above the
\* number of days of the window, and returns exactly n distinct dates of the
\* window in ascending order.
C26_RandDatesTerminates ==
    (pc = "rand_dates")
        ~> (/\ pc = "baseline"
            /\ Len(dates) = args.num_random_dates
            /\ \A i \in 1..Len(dates) : dates[i] \in WindowDates
            /\ \A i \in 1..(Len(dates) - 1) : StrictlyBefore(dates[i], dates[i + 1]))

\* The lists with the elements of s in every order.
Reorderings(s) ==
    {[i \in 1..Len(s) |-> s[p[i]]] :
        p \in {q \in [1..Len(s) -> 1..Len(s)] :
                  \A i, j \in 1..Len(s) : q[i] = q[j] => i = j}}

Distinct(s) == \A i, j \in 1..Len(s) : s[i] = s[j] => i = j

\* C27: for explicit, distinct --dates the rows written are the rows of the
\* run with the same seed, roster and trial count and the dates supplied in
\* any other order.
C27_DateOrderIrrelevant ==
    (args.dates # <<>> /\ Distinct(args.dates))
        => \A p \in Reorderings(args.dates) :
              \A i \in 1..Len(rows) :
                 rows[i] = RunRow([args EXCEPT !.dates = p], roster, i - 1)

\* A run given the later date first has ended; its first row is the one of
\* the earlier date and its last row the one of the later date.
C27_Witness ==
    /\ pc = "done"
    /\ args.dates = <<D2, D1>>
    /\ rows # <<>>
    /\ rows[1].date = D1
    /\ LastRow.date = D2

====
